---- MODULE Spec2Model ----
(***************************************************************************)
(* Model of the session / process-orchestration layer of kani-driver       *)
(* (kani-driver/src/session.rs).                                           *)
(*                                                                         *)
(* Two specifications share the module:                                    *)
(*   Spec         the four execution policies run_terminal,                *)
(*                run_terminal_timeout, run_suppress and run_piped, called *)
(*                any number of times with the verbosity and the harness   *)
(*                timeout of one session, together with the child          *)
(*                processes they spawn;                                    *)
(*   SpecSession  the temp-file registry of a KaniSession and its Drop.    *)
(*                                                                         *)
(* Environment assumptions: the driver's own stdout is writable (println!  *)
(* does not panic, write_all returns Ok); SIGKILL can be delivered to a    *)
(* child the driver spawned.                                               *)
(***************************************************************************)
EXTENDS Integers, Sequences, FiniteSets, TLC

(***************************************************************************)
(* Bounds                                                                  *)
(***************************************************************************)
\* live children handed out by run_piped that the model tracks at once
MaxPiped == 2
\* length of the temp-file registry
MaxTemps == 3

(***************************************************************************)
(* Input domains                                                           *)
(***************************************************************************)
Programs == {"kani-compiler", "cbmc"}

\* std::process::ExitStatus as rendered by its Display impl
ExitOk == "exit status: 0"
ExitFail == "exit status: 1"
Killed == "signal: 9 (SIGKILL)"
NaturalStatuses == {ExitOk, ExitFail}
ExitStatuses == {ExitOk, ExitFail, Killed}

\* bytes a captured child wrote to its stdout / stderr
ChildStdouts == {<<>>, <<"o1", "o2">>}
ChildStderrs == {<<>>, <<"e1">>}

Paths == {"a.out", "b.symtab"}
FileStates == {"absent", "file", "undeletable"}

VARIABLES
    args,         \* KaniSession.args: quiet, verbose, harness_timeout, keep_temps
    pc,           \* position of the driver thread inside the executor
    obs,          \* the call in progress, or the last call that ended
    child,        \* the child process of that call
    piped,        \* live children returned to the caller by run_piped
    temporaries,  \* KaniSession.temporaries
    fs,           \* on-disk state of every path that may be recorded
    removed,      \* std::fs::remove_file calls made so far: path and outcome
    session,      \* "alive", "unwinding" (a panic is propagating) or "dropped"
    drops,        \* number of times Drop::drop ran
    recorded,     \* every path passed to record_temporary_file(s), in call order
    pb,           \* one run of playback_standalone
    proc,         \* the driver process: executable location, disk, global logger
    thr,          \* threads sharing one session: mutex and positions
    harness       \* one run of the proof harness prove_add_three

vars == <<args, pc, obs, child, piped, temporaries, fs, removed, session, drops,
          recorded, pb, proc, thr, harness>>
execVars == <<pc, obs, child, piped>>
sessionVars == <<temporaries, fs, removed, session, drops, recorded>>
moreVars == <<pb, proc, thr, harness>>

(***************************************************************************)
(* Values                                                                  *)
(***************************************************************************)
\* anyhow::Result as seen by the caller.  value: "()" for Result<()>,
\* "true"/"false" for Result<bool>, "child" for Result<Child>.
Ok(v) == [kind |-> "Ok", value |-> v, msg |-> "", program |-> "", status |-> ""]
Err(m, p, s) == [kind |-> "Err", value |-> "", msg |-> m, program |-> p, status |-> s]
Panicked == [kind |-> "Panic", value |-> "", msg |-> "called Result::unwrap() on an Err value",
             program |-> "", status |-> ""]
Pending == [kind |-> "Pending", value |-> "", msg |-> "", program |-> "", status |-> ""]

\* std::process::Command as built by the callers: stdio left at its default
NewCommand(p) == [program |-> p, stdout |-> "default", stderr |-> "default"]

NoChild == [state |-> "none", status |-> "", kill_sent |-> FALSE]
Running == [state |-> "running", status |-> "", kill_sent |-> FALSE]
Reaped(s) == [state |-> "reaped", status |-> s, kill_sent |-> FALSE]

\* ExitStatus::success
success(status) == status = ExitOk

\* what one line / one chunk written to the driver's stdout looks like
RunningLine(cmd) == [tag |-> "[Kani] Running:", text |-> cmd.program]
FinishedLine(description) == [tag |-> "Finished", text |-> description]
RECURSIVE RawBytes(_)
RawBytes(bytes) ==
    IF bytes = <<>> THEN <<>>
    ELSE <<[tag |-> "raw", text |-> Head(bytes)]>> \o RawBytes(Tail(bytes))

\* how Command::spawn / Command::status wire a stream left at its default
SpawnStdio(cfg) == IF cfg = "default" THEN "inherit" ELSE cfg
\* how Command::output wires a stream left at its default
OutputStdio(cfg) == IF cfg = "default" THEN "piped" ELSE cfg

(***************************************************************************)
(* Verbosity                                                               *)
(***************************************************************************)
is_set(v) == v.quiet \/ v.verbose

(***************************************************************************)
(* with_timer: what is printed after the timed function returned           *)
(***************************************************************************)
with_timer_always(v, description) == <<FinishedLine(description)>>

with_timer(v, description) ==
    IF v.verbose THEN <<FinishedLine(description)>> ELSE <<>>

(***************************************************************************)
(* The head shared by run_terminal and run_terminal_timeout: discard the   *)
(* child's streams when quiet, echo the command when verbose.              *)
(***************************************************************************)
QuietStdio_keeps_stderr(v, cmd) ==
    IF v.quiet THEN [cmd EXCEPT !.stdout = "null"] ELSE cmd

QuietStdio(v, cmd) ==
    IF v.quiet THEN [cmd EXCEPT !.stdout = "null", !.stderr = "null"] ELSE cmd

Echo(v, cmd) == IF v.verbose THEN <<RunningLine(cmd)>> ELSE <<>>

\* the part of obs a call fills in
Outcome(cmd, stdout, stderr, out, result, spawns, ch) ==
    [cmd |-> cmd, stdout |-> stdout, stderr |-> stderr, out |-> out,
     result |-> result, spawns |-> spawns, child |-> ch]

(***************************************************************************)
(* run_terminal                                                            *)
(***************************************************************************)
RunTerminal_ignores_status(v, cmd0, os) ==
    LET cmd == QuietStdio(v, cmd0)
        program == cmd.program
    IN  Outcome(cmd, SpawnStdio(cmd.stdout), SpawnStdio(cmd.stderr),
                Echo(v, cmd) \o with_timer(v, program),
                IF ~os.spawn_ok THEN Err("Failed to invoke", program, "") ELSE Ok("()"),
                1, IF os.spawn_ok THEN Reaped(os.status) ELSE NoChild)

RunTerminal(v, cmd0, os) ==
    LET cmd == QuietStdio(v, cmd0)
        program == cmd.program
        \* with_timer(|| cmd.status().context(..)): the line is printed
        \* whatever the closure returned, `?` is applied afterwards
        out == Echo(v, cmd) \o with_timer(v, program)
        result == IF ~os.spawn_ok THEN Err("Failed to invoke", cmd.program, "")
                  ELSE IF ~success(os.status)
                       THEN Err("exited with status", cmd.program, os.status)
                       ELSE Ok("()")
    IN  Outcome(cmd, SpawnStdio(cmd.stdout), SpawnStdio(cmd.stderr), out, result,
                1, IF os.spawn_ok THEN Reaped(os.status) ELSE NoChild)

(***************************************************************************)
(* run_suppress                                                            *)
(***************************************************************************)
RunSuppress_does_not_wait(v, cmd, os) ==
    IF is_set(v) THEN RunTerminal(v, cmd, os)
    ELSE IF ~os.spawn_ok
         THEN Outcome(cmd, OutputStdio(cmd.stdout), OutputStdio(cmd.stderr), <<>>,
                      Err("Failed to invoke", cmd.program, ""), 1, NoChild)
    ELSE Outcome(cmd, OutputStdio(cmd.stdout), OutputStdio(cmd.stderr), <<>>,
                 Ok("()"), 1, Running)

RunSuppress_stderr_first(v, cmd, os) ==
    IF is_set(v) THEN RunTerminal(v, cmd, os)
    ELSE IF ~os.spawn_ok
         THEN Outcome(cmd, OutputStdio(cmd.stdout), OutputStdio(cmd.stderr), <<>>,
                      Err("Failed to invoke", cmd.program, ""), 1, NoChild)
    ELSE IF ~success(os.status)
         THEN Outcome(cmd, OutputStdio(cmd.stdout), OutputStdio(cmd.stderr),
                      RawBytes(os.stderr) \o RawBytes(os.stdout),
                      Err("exited with status", cmd.program, os.status),
                      1, Reaped(os.status))
    ELSE Outcome(cmd, OutputStdio(cmd.stdout), OutputStdio(cmd.stderr), <<>>,
                 Ok("()"), 1, Reaped(os.status))

RunSuppress_never_flushes(v, cmd, os) ==
    IF is_set(v) THEN RunTerminal(v, cmd, os)
    ELSE IF ~os.spawn_ok
         THEN Outcome(cmd, OutputStdio(cmd.stdout), OutputStdio(cmd.stderr), <<>>,
                      Err("Failed to invoke", cmd.program, ""), 1, NoChild)
    ELSE IF ~success(os.status)
         THEN Outcome(cmd, OutputStdio(cmd.stdout), OutputStdio(cmd.stderr), <<>>,
                      Err("exited with status", cmd.program, os.status),
                      1, Reaped(os.status))
    ELSE Outcome(cmd, OutputStdio(cmd.stdout), OutputStdio(cmd.stderr), <<>>,
                 Ok("()"), 1, Reaped(os.status))

RunSuppress_always_captures(v, cmd, os) ==
    IF ~os.spawn_ok
    THEN Outcome(cmd, OutputStdio(cmd.stdout), OutputStdio(cmd.stderr), <<>>,
                 Err("Failed to invoke", cmd.program, ""), 1, NoChild)
    ELSE IF ~success(os.status)
         THEN Outcome(cmd, OutputStdio(cmd.stdout), OutputStdio(cmd.stderr),
                      RawBytes(os.stdout) \o RawBytes(os.stderr),
                      Err("exited with status", cmd.program, os.status),
                      1, Reaped(os.status))
    ELSE Outcome(cmd, OutputStdio(cmd.stdout), OutputStdio(cmd.stderr), <<>>,
                 Ok("()"), 1, Reaped(os.status))

RunSuppress(v, cmd, os) ==
    IF is_set(v) THEN RunTerminal(v, cmd, os)
    \* cmd.output(): both streams captured, the child is waited for
    ELSE IF ~os.spawn_ok
         THEN Outcome(cmd, OutputStdio(cmd.stdout), OutputStdio(cmd.stderr), <<>>,
                      Err("Failed to invoke", cmd.program, ""), 1, NoChild)
    ELSE IF ~success(os.status)
         \* handle.write_all(&result.stdout)?; handle.write_all(&result.stderr)?; bail!
         THEN Outcome(cmd, OutputStdio(cmd.stdout), OutputStdio(cmd.stderr),
                      RawBytes(os.stdout) \o RawBytes(os.stderr),
                      Err("exited with status", cmd.program, os.status),
                      1, Reaped(os.status))
    ELSE Outcome(cmd, OutputStdio(cmd.stdout), OutputStdio(cmd.stderr), <<>>,
                 Ok("()"), 1, Reaped(os.status))

(***************************************************************************)
(* run_piped                                                               *)
(***************************************************************************)
RunPiped_waits(v, cmd0, os) ==
    LET cmd == [cmd0 EXCEPT !.stdout = "piped"]
    IN  Outcome(cmd, SpawnStdio(cmd.stdout), SpawnStdio(cmd.stderr), Echo(v, cmd0),
                IF ~os.spawn_ok THEN Err("Failed to invoke", cmd.program, "")
                ELSE IF ~success(os.status)
                     THEN Err("exited with status", cmd.program, os.status)
                     ELSE Ok("child"),
                1, IF os.spawn_ok THEN Reaped(os.status) ELSE NoChild)

RunPiped(v, cmd0, os) ==
    LET cmd == [cmd0 EXCEPT !.stdout = "piped"]
    IN  Outcome(cmd, SpawnStdio(cmd.stdout), SpawnStdio(cmd.stderr), Echo(v, cmd0),
                IF ~os.spawn_ok THEN Err("Failed to invoke", cmd.program, "")
                ELSE Ok("child"),
                1, IF os.spawn_ok THEN Running ELSE NoChild)

(***************************************************************************)
(* run_terminal_timeout                                                    *)
(***************************************************************************)
\* the value `result` of with_timer(..).await: the outer Result tells whether
\* the wait timed out, the inner one whether the child could be started
Elapsed == [timeout |-> TRUE, spawn_err |-> FALSE, status |-> ""]
Waited(s) == [timeout |-> FALSE, spawn_err |-> FALSE, status |-> s]
SpawnErr == [timeout |-> FALSE, spawn_err |-> TRUE, status |-> ""]
NoRes == [timeout |-> FALSE, spawn_err |-> FALSE, status |-> "unresolved"]

\* lines 229-237: what the call returns for the value of the timed closure
TimeoutReturn_timeout_is_failure(program, r) ==
    IF r.timeout THEN Err("exited with status", program, Killed)
    ELSE IF r.spawn_err THEN Err("Failed to invoke", program, "")
    ELSE IF ~success(r.status) THEN Err("exited with status", program, r.status)
    ELSE Ok("false")

TimeoutReturn(program, r) ==
    IF r.timeout THEN Ok("true")
    ELSE IF r.spawn_err THEN Err("Failed to invoke", program, "")
    ELSE IF ~success(r.status) THEN Err("exited with status", program, r.status)
    ELSE Ok("false")

\* the branch without a timeout: Ok(cmd.status().await)
RunTerminalTimeoutNone_unwraps(v, cmd0, os) ==
    LET cmd == QuietStdio(v, cmd0)
        program == cmd.program
    IN  IF ~os.spawn_ok
        THEN Outcome(cmd, SpawnStdio(cmd.stdout), SpawnStdio(cmd.stderr), Echo(v, cmd),
                     Panicked, 1, NoChild)
        ELSE Outcome(cmd, SpawnStdio(cmd.stdout), SpawnStdio(cmd.stderr),
                     Echo(v, cmd) \o with_timer(v, program),
                     TimeoutReturn(program, Waited(os.status)), 1, Reaped(os.status))

RunTerminalTimeoutNone(v, cmd0, os) ==
    LET cmd == QuietStdio(v, cmd0)
        program == cmd.program
        r == IF os.spawn_ok THEN Waited(os.status) ELSE SpawnErr
    IN  Outcome(cmd, SpawnStdio(cmd.stdout), SpawnStdio(cmd.stderr),
                Echo(v, cmd) \o with_timer(v, program),
                TimeoutReturn(program, r),
                1, IF os.spawn_ok THEN Reaped(os.status) ELSE NoChild)

\* the branch with a timeout, up to and including cmd.spawn().unwrap()
RunTerminalTimeoutSpawn(v, cmd0, os) ==
    LET cmd == QuietStdio(v, cmd0)
    IN  Outcome(cmd, SpawnStdio(cmd.stdout), SpawnStdio(cmd.stderr), Echo(v, cmd),
                IF os.spawn_ok THEN Pending ELSE Panicked,
                1, IF os.spawn_ok THEN Running ELSE NoChild)

\* child.kill().await: SIGKILL (a no-op on a child that already exited), then
\* wait for the child, which reaps it
KillAndReap_drops_handle(c) == c

KillAndReap(c) ==
    [state |-> "reaped",
     status |-> IF c.state = "running" THEN Killed ELSE c.status,
     kill_sent |-> TRUE]

(***************************************************************************)
(* The temp-file registry and Drop for KaniSession                         *)
(***************************************************************************)
\* t.extend(temps.iter().map(|p| p.as_ref().to_owned()))
RECURSIVE record_temporary_files_dedups(_, _)
record_temporary_files_dedups(t, temps) ==
    IF temps = <<>> THEN t
    ELSE IF \E i \in 1..Len(t) : t[i] = Head(temps)
         THEN record_temporary_files_dedups(t, Tail(temps))
         ELSE record_temporary_files_dedups(Append(t, Head(temps)), Tail(temps))

record_temporary_files(t, temps) == t \o temps

\* std::fs::remove_file on the disk state `disk`
remove_file(disk, file) ==
    IF disk[file] = "file"
    THEN [ok |-> TRUE, disk |-> [disk EXCEPT ![file] = "absent"]]
    ELSE [ok |-> FALSE, disk |-> disk]

\* for file in temporaries.iter() { let _result = std::fs::remove_file(file); }
RECURSIVE RemoveAll_stops_at_failure(_, _, _)
RemoveAll_stops_at_failure(files, disk, log) ==
    IF files = <<>> THEN [disk |-> disk, log |-> log, error |-> FALSE]
    ELSE LET r == remove_file(disk, Head(files))
             l == Append(log, [path |-> Head(files), ok |-> r.ok])
         IN  IF r.ok THEN RemoveAll_stops_at_failure(Tail(files), r.disk, l)
             ELSE [disk |-> r.disk, log |-> l, error |-> TRUE]

RECURSIVE RemoveAll(_, _, _)
RemoveAll(files, disk, log) ==
    IF files = <<>> THEN [disk |-> disk, log |-> log, error |-> FALSE]
    ELSE LET r == remove_file(disk, Head(files))
         IN  RemoveAll(Tail(files), r.disk, Append(log, [path |-> Head(files), ok |-> r.ok]))

\* Drop::drop
drop(keep_temps, t, disk) ==
    IF ~keep_temps THEN RemoveAll(t, disk, <<>>)
    ELSE [disk |-> disk, log |-> <<>>, error |-> FALSE]

(***************************************************************************)
(* State                                                                   *)
(***************************************************************************)
Verbosity == [quiet |-> args.quiet, verbose |-> args.verbose]

NoOs == [spawn_ok |-> FALSE, status |-> "", stdout |-> <<>>, stderr |-> <<>>]

\* what the operating system and the child do with a command: the spawn
\* fails, or the child runs and exits with a status
OsBehaviours ==
    {NoOs} \cup {[spawn_ok |-> TRUE, status |-> s, stdout |-> <<>>, stderr |-> <<>>] :
                    s \in ExitStatuses}

\* the same, with what the child wrote to the streams the driver captures
CapturedBehaviours ==
    {NoOs} \cup {[spawn_ok |-> TRUE, status |-> s, stdout |-> o, stderr |-> e] :
                    s \in ExitStatuses, o \in ChildStdouts, e \in ChildStderrs}

\* a spawn whose child has not exited yet
SpawnBehaviours == {NoOs, [spawn_ok |-> TRUE, status |-> "", stdout |-> <<>>, stderr |-> <<>>]}

MkObs(policy, os, o, res, n) ==
    [policy |-> policy, os |-> os, cmd |-> o.cmd, stdout |-> o.stdout, stderr |-> o.stderr,
     out |-> o.out, result |-> o.result, spawns |-> o.spawns, res |-> res, resolutions |-> n]

NoCall ==
    [policy |-> "none", os |-> NoOs, cmd |-> NewCommand(""), stdout |-> "", stderr |-> "",
     out |-> <<>>, result |-> Pending, spawns |-> 0, res |-> NoRes, resolutions |-> 0]

\* the parts of the model a specification does not exercise
NoPlayback == [state |-> "unused"]
NoProcess == [state |-> "unused"]
NoThreads == [state |-> "unused"]
NoHarness == [state |-> "unused"]

ExecIdle ==
    /\ pc = "idle"
    /\ obs = NoCall
    /\ child = NoChild
    /\ piped = <<>>

SessionNew ==
    /\ temporaries = <<>>
    /\ recorded = <<>>
    /\ removed = <<>>
    /\ session = [state |-> "alive", panicking |-> FALSE]
    /\ drops = 0

ArgsSet ==
    [quiet : BOOLEAN, verbose : BOOLEAN, harness_timeout : {"None", "Some"},
     keep_temps : BOOLEAN]

\* Spec: the executor never reads keep_temps and never touches the disk
Init ==
    /\ args \in {a \in ArgsSet : ~a.keep_temps}
    /\ fs = [p \in Paths |-> "absent"]
    /\ ExecIdle
    /\ SessionNew
    /\ pb = NoPlayback /\ proc = NoProcess /\ thr = NoThreads /\ harness = NoHarness

\* SpecSession: the registry and Drop never read the verbosity
InitSession ==
    /\ args \in {a \in ArgsSet : ~a.quiet /\ ~a.verbose}
    /\ fs \in [Paths -> FileStates]
    /\ ExecIdle
    /\ SessionNew
    /\ pb = NoPlayback /\ proc = NoProcess /\ thr = NoThreads /\ harness = NoHarness

(***************************************************************************)
(* Actions of the executor                                                 *)
(***************************************************************************)
\* the driver thread is between two calls and has not panicked
CanCall == pc = "idle" /\ obs.result.kind # "Panic"

TerminalCall ==
    /\ CanCall
    /\ \E p \in Programs, os \in OsBehaviours :
          LET o == RunTerminal(Verbosity, NewCommand(p), os)
          IN  /\ obs' = MkObs("run_terminal", os, o, NoRes, 0)
              /\ child' = o.child
    /\ UNCHANGED <<args, pc, piped, sessionVars, moreVars>>

SuppressCall ==
    /\ CanCall
    /\ \E p \in Programs,
          os \in (IF is_set(Verbosity) THEN OsBehaviours ELSE CapturedBehaviours) :
          LET o == RunSuppress(Verbosity, NewCommand(p), os)
          IN  /\ obs' = MkObs("run_suppress", os, o, NoRes, 0)
              /\ child' = o.child
    /\ UNCHANGED <<args, pc, piped, sessionVars, moreVars>>

PipedCall ==
    /\ CanCall
    /\ Len(piped) < MaxPiped
    /\ \E p \in Programs, os \in SpawnBehaviours :
          LET o == RunPiped(Verbosity, NewCommand(p), os)
          IN  /\ obs' = MkObs("run_piped", os, o, NoRes, 0)
              \* the handle is moved to the caller
              /\ piped' = IF o.child.state = "none" THEN piped ELSE Append(piped, o.child)
    /\ child' = NoChild
    /\ UNCHANGED <<args, pc, sessionVars, moreVars>>

\* a child returned by run_piped exits on its own
PipedChildExits ==
    /\ \E i \in 1..Len(piped), s \in NaturalStatuses :
          /\ piped[i].state = "running"
          /\ piped' = [piped EXCEPT ![i] = [@ EXCEPT !.state = "exited", !.status = s]]
    /\ UNCHANGED <<args, pc, obs, child, sessionVars, moreVars>>

\* run_terminal_timeout, timeout = None
TimeoutCallNone ==
    /\ CanCall
    /\ args.harness_timeout = "None"
    /\ \E p \in Programs, os \in OsBehaviours :
          LET o == RunTerminalTimeoutNone(Verbosity, NewCommand(p), os)
          IN  /\ obs' = MkObs("run_terminal_timeout", os, o, NoRes, 0)
              /\ child' = o.child
    /\ UNCHANGED <<args, pc, piped, sessionVars, moreVars>>

\* run_terminal_timeout, timeout = Some(_): up to the await of the race
TimeoutCallSpawn ==
    /\ CanCall
    /\ args.harness_timeout = "Some"
    /\ \E p \in Programs, os \in SpawnBehaviours :
          LET o == RunTerminalTimeoutSpawn(Verbosity, NewCommand(p), os)
          IN  /\ obs' = MkObs("run_terminal_timeout", os, o, NoRes, 0)
              /\ child' = o.child
              /\ pc' = IF o.result.kind = "Panic" THEN "idle" ELSE "race"
    /\ UNCHANGED <<args, piped, sessionVars, moreVars>>

\* the child of the pending race exits on its own
ChildExits ==
    /\ pc \in {"race", "kill"}
    /\ child.state = "running"
    /\ \E s \in NaturalStatuses :
          child' = [child EXCEPT !.state = "exited", !.status = s]
    /\ UNCHANGED <<args, pc, obs, piped, sessionVars, moreVars>>

\* tokio::time::timeout polls child.wait() first: an exited child wins
WaitReady ==
    /\ pc = "race"
    /\ child.state = "exited"
    /\ child' = [child EXCEPT !.state = "reaped"]
    /\ obs' = [obs EXCEPT !.res = Waited(child.status), !.resolutions = @ + 1]
    /\ pc' = "timed"
    /\ UNCHANGED <<args, piped, sessionVars, moreVars>>

\* the timer resolves while child.wait() is still pending
TimerElapsed ==
    /\ pc = "race"
    /\ child.state = "running"
    /\ obs' = [obs EXCEPT !.res = Elapsed, !.resolutions = @ + 1]
    /\ pc' = "kill"
    /\ UNCHANGED <<args, child, piped, sessionVars, moreVars>>

\* if res.is_err() { child.kill().await.unwrap(); }
KillChild ==
    /\ pc = "kill"
    /\ child' = KillAndReap(child)
    /\ pc' = "timed"
    /\ UNCHANGED <<args, obs, piped, sessionVars, moreVars>>

\* with_timer prints, then lines 229-237 compute the return value
TimeoutReturns ==
    /\ pc = "timed"
    /\ obs' = [obs EXCEPT !.out = @ \o with_timer(Verbosity, obs.cmd.program),
                          !.result = TimeoutReturn(obs.cmd.program, obs.res)]
    /\ pc' = "idle"
    /\ UNCHANGED <<args, child, piped, sessionVars, moreVars>>

Next ==
    \/ TerminalCall
    \/ SuppressCall
    \/ PipedCall
    \/ PipedChildExits
    \/ TimeoutCallNone
    \/ TimeoutCallSpawn
    \/ ChildExits
    \/ WaitReady
    \/ TimerElapsed
    \/ KillChild
    \/ TimeoutReturns

Spec == Init /\ [][Next]_vars

(***************************************************************************)
(* Actions of the session                                                  *)
(***************************************************************************)
RECURSIVE SeqsUpTo(_, _)
SeqsUpTo(S, n) ==
    IF n = 0 THEN {<<>>}
    ELSE LET shorter == SeqsUpTo(S, n - 1)
         IN  shorter \cup {Append(q, x) : q \in shorter, x \in S}

RecordTemporaryFile ==
    /\ session = [state |-> "alive", panicking |-> FALSE]
    /\ Len(temporaries) < MaxTemps
    /\ \E temp \in Paths :
          /\ temporaries' = record_temporary_files(temporaries, <<temp>>)
          /\ recorded' = Append(recorded, temp)
    /\ UNCHANGED <<args, execVars, fs, removed, session, drops, moreVars>>

RecordTemporaryFiles ==
    /\ session = [state |-> "alive", panicking |-> FALSE]
    /\ \E temps \in SeqsUpTo(Paths, MaxTemps - Len(temporaries)) :
          /\ temporaries' = record_temporary_files(temporaries, temps)
          /\ recorded' = [i \in 1..(Len(recorded) + Len(temps)) |->
                             IF i <= Len(recorded) THEN recorded[i] ELSE temps[i - Len(recorded)]]
    /\ UNCHANGED <<args, execVars, fs, removed, session, drops, moreVars>>

\* a panic starts unwinding through the frame that owns the session
Unwind ==
    /\ session = [state |-> "alive", panicking |-> FALSE]
    /\ session' = [session EXCEPT !.panicking = TRUE]
    /\ UNCHANGED <<args, execVars, temporaries, fs, removed, drops, recorded, moreVars>>

\* the session goes out of scope, on return or while unwinding
Drop ==
    /\ session.state = "alive"
    /\ LET d == drop(args.keep_temps, temporaries, fs)
       IN  /\ fs' = d.disk
           /\ removed' = removed \o d.log
           /\ session' = [session EXCEPT !.state = IF d.error THEN "drop failed" ELSE "dropped"]
    /\ drops' = drops + 1
    /\ UNCHANGED <<args, execVars, temporaries, recorded, moreVars>>

NextSession ==
    \/ RecordTemporaryFile
    \/ RecordTemporaryFiles
    \/ Unwind
    \/ Drop

SpecSession == InitSession /\ [][NextSession]_vars

(***************************************************************************)
(* Properties of the execution policies (checked under Spec)               *)
(***************************************************************************)
\* the last call made through `policy` has ended (returned or panicked)
Ended(policy) == pc = "idle" /\ obs.policy = policy

\* the command the caller passed to the call obs describes
InputCommand == NewCommand(obs.cmd.program)

\* Result<bool> of run_terminal_timeout read as the Result<()> of run_terminal
AsTerminalResult(r) == IF r = Ok("false") THEN Ok("()") ELSE r

\* the number of elapsed-time lines naming `program` in what a call printed
RECURSIVE FinishedLines(_, _)
FinishedLines(out, program) ==
    IF out = <<>> THEN 0
    ELSE (IF Head(out) = FinishedLine(program) THEN 1 ELSE 0) + FinishedLines(Tail(out), program)

\* the number of elapsed-time lines at all
RECURSIVE TimingLines(_)
TimingLines(out) ==
    IF out = <<>> THEN 0
    ELSE (IF Head(out).tag = "Finished" THEN 1 ELSE 0) + TimingLines(Tail(out))

\* what the child wrote reaches the user: its streams are the driver's, or
\* the driver captured them and wrote every captured byte to its stdout
OutputVisible ==
    \/ obs.stdout = "inherit" /\ obs.stderr = "inherit"
    \/ /\ obs.stdout = "piped" /\ obs.stderr = "piped"
       /\ obs.out = RawBytes(obs.os.stdout) \o RawBytes(obs.os.stderr)

TimeoutSet == obs.policy = "run_terminal_timeout" /\ args.harness_timeout = "Some"

\* C1: run_terminal_timeout with a timeout set: once the timer has won the
\* race the call can only return Ok(true), never an error, and from the
\* return on the child is not running: it was killed (if it had not exited
\* by itself in between) and reaped before the call returned.
C1_TimedOutChildKilledAndReaped ==
    (TimeoutSet /\ obs.res.timeout) =>
        /\ pc \in {"kill", "timed", "idle"}
        /\ pc # "kill" => child.state = "reaped" /\ child.kill_sent
        /\ pc = "idle" => obs.result = Ok("true")

C1_Witness ==
    /\ TimeoutSet /\ pc = "idle"
    /\ obs.res.timeout
    /\ obs.result = Ok("true")
    /\ child = [state |-> "reaped", status |-> Killed, kill_sent |-> TRUE]

\* C2: run_terminal_timeout with a timeout set and a spawned child: the race
\* is resolved exactly once per call; the call reports timed-out iff the
\* timer resolved it; if the child's exit resolved it the call behaves as
\* run_terminal does for that exit status; the child is sent a kill iff the
\* timer won.
C2_RaceHasExactlyOneOutcome ==
    (TimeoutSet /\ obs.os.spawn_ok) =>
        /\ obs.resolutions = (IF pc = "race" THEN 0 ELSE 1)
        /\ child.kill_sent => obs.res.timeout
        /\ pc = "idle" =>
              /\ (obs.result = Ok("true")) <=> obs.res.timeout
              /\ child.kill_sent <=> obs.res.timeout
              /\ ~obs.res.timeout =>
                    LET t == RunTerminal(Verbosity, InputCommand,
                                         [obs.os EXCEPT !.status = child.status])
                    IN  /\ obs.res = Waited(child.status)
                        /\ AsTerminalResult(obs.result) = t.result
                        /\ obs.out = t.out
                        /\ obs.stdout = t.stdout /\ obs.stderr = t.stderr
                        /\ child = t.child

C2_Witness ==
    /\ TimeoutSet /\ pc = "idle"
    /\ ~obs.res.timeout
    /\ obs.result = Err("exited with status", obs.cmd.program, ExitFail)
    /\ child = Reaped(ExitFail)

C4_SpawnFailureIsAnError ==
    (pc = "idle" /\ obs.policy # "none" /\ ~obs.os.spawn_ok) =>
        obs.result = Err("Failed to invoke", obs.cmd.program, "")

\* C5: run_terminal spawns the command once and waits for it; it returns
\* Ok(()) iff the child was spawned and exited with status 0, and for a
\* child that exited otherwise an error holding the program name and the
\* exit status, whatever the verbosity.
C5_RunTerminalResult ==
    Ended("run_terminal") =>
        /\ obs.spawns = 1
        /\ child.state \in {"none", "reaped"}
        /\ obs.result.kind \in {"Ok", "Err"}
        /\ (obs.result = Ok("()")) <=> (obs.os.spawn_ok /\ obs.os.status = ExitOk)
        /\ (obs.os.spawn_ok /\ obs.os.status # ExitOk) =>
              /\ obs.result.kind = "Err"
              /\ obs.result.program = InputCommand.program
              /\ obs.result.status = obs.os.status

C5_Witness ==
    /\ Ended("run_terminal")
    /\ args.quiet
    /\ obs.os.spawn_ok /\ obs.os.status = ExitFail
    /\ obs.result = Err("exited with status", obs.cmd.program, ExitFail)

\* C6: run_suppress with default verbosity: a command that succeeds leaves
\* the driver's stdout untouched and the call succeeds; for a command that
\* exits unsuccessfully the driver has written the captured stdout bytes
\* followed by the captured stderr bytes, and nothing else, when it returns
\* the failure run_terminal returns for that exit.
C6_SuppressFlushesOnFailure ==
    (Ended("run_suppress") /\ ~args.quiet /\ ~args.verbose /\ obs.os.spawn_ok) =>
        /\ success(obs.os.status) => obs.out = <<>> /\ obs.result = Ok("()")
        /\ ~success(obs.os.status) =>
              /\ obs.out = RawBytes(obs.os.stdout) \o RawBytes(obs.os.stderr)
              /\ obs.result = RunTerminal(Verbosity, InputCommand, obs.os).result
              /\ obs.result.kind = "Err"

C6_Witness ==
    /\ Ended("run_suppress") /\ ~args.quiet /\ ~args.verbose
    /\ obs.os.status = ExitFail
    /\ obs.os.stdout = <<"o1", "o2">> /\ obs.os.stderr = <<"e1">>
    /\ Len(obs.out) = 3
    /\ obs.out[3].text = "e1"
    /\ obs.result.kind = "Err"

\* C7 as stated: for every verbosity a failing command run by run_suppress
\* has its failure returned and its output made visible; output is hidden
\* only for commands that succeed.
C7_FailureOutputAlwaysVisible ==
    (Ended("run_suppress") /\ obs.os.spawn_ok) =>
        /\ ~success(obs.os.status) => obs.result.kind = "Err" /\ OutputVisible
        /\ ~OutputVisible => success(obs.os.status)

\* C7 (amended): for every verbosity run_suppress returns the failure of a
\* failing command to the caller.  The failing command's output is visible
\* exactly when verbosity is not quiet (flushed when default, inherited when
\* verbose); when quiet it is discarded.  When not quiet, output is hidden
\* only for commands that succeed.
C7_FailureReturnedOutputVisibleUnlessQuiet ==
    Ended("run_suppress") =>
        /\ ~obs.os.spawn_ok => obs.result.kind = "Err"
        /\ (obs.os.spawn_ok /\ ~success(obs.os.status)) =>
              /\ obs.result = Err("exited with status", obs.cmd.program, obs.os.status)
              /\ OutputVisible <=> ~args.quiet
              /\ (~args.quiet /\ ~args.verbose) =>
                    obs.out = RawBytes(obs.os.stdout) \o RawBytes(obs.os.stderr)
        /\ (obs.os.spawn_ok /\ ~args.quiet /\ ~OutputVisible) => success(obs.os.status)

C7_Witness ==
    /\ Ended("run_suppress")
    /\ args.quiet /\ ~args.verbose
    /\ obs.os.spawn_ok /\ obs.os.status = ExitFail
    /\ obs.result.kind = "Err"
    /\ obs.stdout = "null" /\ obs.stderr = "null"
    /\ obs.out = <<>>

C9_PipedReturnsLiveChild ==
    /\ \A i \in 1..Len(piped) :
          piped[i].state \in {"running", "exited"} /\ ~piped[i].kill_sent
    /\ Ended("run_piped") =>
          /\ obs.spawns = 1
          /\ child = NoChild
          /\ obs.os.spawn_ok =>
                /\ obs.result = Ok("child")
                /\ obs.stdout = "piped"
                /\ obs.stderr = SpawnStdio(InputCommand.stderr)
                /\ Len(piped) >= 1
          /\ (obs.result.kind = "Err") <=> ~obs.os.spawn_ok
          /\ ~obs.os.spawn_ok => obs.result = Err("Failed to invoke", obs.cmd.program, "")

C9_Witness ==
    /\ Ended("run_piped")
    /\ obs.result = Ok("child")
    /\ Len(piped) >= 1
    /\ piped[Len(piped)] = [state |-> "exited", status |-> ExitFail, kill_sent |-> FALSE]

(***************************************************************************)
(* Properties of the session (checked under SpecSession)                   *)
(***************************************************************************)
RECURSIVE PathsOf(_)
PathsOf(log) == IF log = <<>> THEN <<>> ELSE <<Head(log).path>> \o PathsOf(Tail(log))

\* C10: Drop runs at most once, and once the session has ended, normally or
\* by unwinding, it has run exactly once without raising an error; without
\* keep_temps it called remove_file on every recorded path, in insertion
\* order, going on after each failure (absent or undeletable path); with
\* keep_temps it called remove_file on nothing.
C10_TeardownOnce ==
    /\ drops <= 1
    /\ session.state = "alive" => drops = 0 /\ removed = <<>>
    /\ session.state # "alive" =>
          /\ session.state = "dropped"
          /\ drops = 1
          /\ ~args.keep_temps => PathsOf(removed) = temporaries
          /\ ~args.keep_temps =>
                \A p \in Paths : (\E i \in 1..Len(temporaries) : temporaries[i] = p) => fs[p] # "file"
          /\ args.keep_temps => removed = <<>>

C10_Witness ==
    /\ session = [state |-> "dropped", panicking |-> TRUE]
    /\ ~args.keep_temps
    /\ Len(removed) = 3
    /\ ~removed[1].ok
    /\ removed[3].ok
    /\ drops = 1

IsPrefix(a, b) == Len(a) <= Len(b) /\ SubSeq(b, 1, Len(a)) = a

\* C19: the registry is at every moment the concatenation, in call order
\* and with duplicates, of the paths passed to record_temporary_file and
\* record_temporary_files since construction; no step, teardown included,
\* removes or reorders an entry; paths that do not exist are recorded like
\* any other.
C19_RegistryIsConcatenation ==
    /\ [](temporaries = recorded)
    /\ [][IsPrefix(temporaries, temporaries')]_vars

C19_Witness ==
    /\ temporaries = <<"a.out", "b.symtab", "a.out">>
    /\ fs["a.out"] = "absent"
    /\ session.state = "alive"

(***************************************************************************)
(* Children the driver has spawned and not waited for                      *)
(***************************************************************************)
Unwaited(c) == c.state \in {"running", "exited"}

RECURSIVE UnwaitedPiped(_)
UnwaitedPiped(ps) ==
    IF ps = <<>> THEN 0
    ELSE (IF Unwaited(Head(ps)) THEN 1 ELSE 0) + UnwaitedPiped(Tail(ps))

BlockingPolicies == {"run_terminal", "run_suppress", "run_piped"}

\* C18 as stated: for run_terminal, run_suppress and run_piped at most one
\* child is un-waited at any time and no call returns while its child is
\* running; only the timeout policy kills a child.
C18_EveryCallBlocksUntilExit ==
    /\ UnwaitedPiped(piped) <= 1
    /\ (pc = "idle" /\ obs.policy \in BlockingPolicies) =>
          ~Unwaited(child) /\ UnwaitedPiped(piped) = 0
    /\ child.kill_sent => TimeoutSet
    /\ \A i \in 1..Len(piped) : ~piped[i].kill_sent

\* C18 (amended): run_terminal and run_suppress block until the child they
\* spawned has exited and has been waited for; run_piped returns while its
\* child is still running and leaves the waiting to its caller, so any number
\* of piped children can be un-waited at once.  The driver is suspended
\* inside a call only under the timeout policy, and it kills a child only
\* there, after the timer has won: children of run_terminal, run_suppress
\* and run_piped are never killed by the driver.
C18_OnlyPipedReturnsBeforeExit ==
    /\ (Ended("run_terminal") \/ Ended("run_suppress")) =>
          child.state \in {"none", "reaped"} /\ ~child.kill_sent
    /\ (obs.policy \in {"run_terminal", "run_suppress"} /\ obs.os.spawn_ok) =>
          child = Reaped(obs.os.status)
    /\ \A i \in 1..Len(piped) : Unwaited(piped[i]) /\ ~piped[i].kill_sent
    /\ child.kill_sent => TimeoutSet /\ obs.res.timeout
    /\ pc # "idle" => TimeoutSet

C18_Witness ==
    /\ Ended("run_suppress")
    /\ ~args.quiet /\ ~args.verbose
    /\ child = Reaped(ExitFail)
    /\ Len(piped) = 2
    /\ piped[1].state = "running" /\ piped[2].state = "running"

(***************************************************************************)
(* InstallType: where Kani is installed, and the files found from there    *)
(***************************************************************************)
\* depth of the directory holding the running executable
MaxDepth == 4
\* calls of KaniSession::new in one process
MaxSessions == 2
\* calls of InstallType::new followed by its accessors in one process
MaxResolves == 2

\* A path is the sequence of its components below the file-system root.
Segments == {"opt", "target", "kani", "bin"}

RECURSIVE DirsUpTo(_)
DirsUpTo(n) ==
    IF n = 0 THEN {<<>>}
    ELSE LET shorter == DirsUpTo(n - 1)
         IN  shorter \cup {Append(d, x) : d \in shorter, x \in Segments}

\* Path::ends_with: whole components are compared
ends_with(path, suffix) ==
    /\ Len(suffix) <= Len(path)
    /\ SubSeq(path, Len(path) - Len(suffix) + 1, Len(path)) = suffix

\* PathBuf::pop: drops the last component, does nothing at the root
pop(path) == IF path = <<>> THEN path ELSE SubSeq(path, 1, Len(path) - 1)

\* Path::join with a relative path
join(path, rel) == path \o rel

\* Path::file_name
file_name(path) == IF path = <<>> THEN "" ELSE path[Len(path)]

\* Result of the installation functions
IOk(kind, path) == [kind |-> kind, msg |-> "", file |-> "", path |-> path]
IErr(msg, file, path) == [kind |-> "Err", msg |-> msg, file |-> file, path |-> path]
IPanic == [kind |-> "Panic", msg |-> "called Result::unwrap() on an Err value",
           file |-> "", path |-> <<>>]
NotCalled == [kind |-> "not called", msg |-> "", file |-> "", path |-> <<>>]

\* bin_folder: exe is where std::env::current_exe found the executable
bin_folder(exe) ==
    IF exe.ok THEN IOk("dir", exe.dir)
    ELSE IErr("Cannot determine current executable location", "", <<>>)

InstallType_new_release_first(exe) ==
    LET b == bin_folder(exe)
    IN  IF b.kind = "Err" THEN b
        ELSE IF ends_with(b.path, <<"bin">>) THEN IOk("Release", pop(b.path))
        ELSE IF ends_with(b.path, <<"target", "kani", "bin">>)
             THEN IOk("DevRepo", pop(pop(pop(b.path))))
        ELSE IErr("Unable to determine installation location. doesn't look typical",
                  "", b.path)

\* InstallType::new
InstallType_new(exe) ==
    LET b == bin_folder(exe)
    IN  IF b.kind = "Err" THEN b
        ELSE IF ends_with(b.path, <<"target", "kani", "bin">>)
             THEN IOk("DevRepo", pop(pop(pop(b.path))))
        ELSE IF ends_with(b.path, <<"bin">>) THEN IOk("Release", pop(b.path))
        ELSE IErr("Unable to determine installation location. doesn't look typical",
                  "", b.path)

expect_path_unchecked(path, disk) == IOk("path", path)

\* expect_path
expect_path(path, disk) ==
    IF path \in disk THEN IOk("path", path)
    ELSE IErr("Unable to find. Looked for", file_name(path), path)

\* InstallType::kani_compiler
kani_compiler(install, exe, disk) ==
    IF install.kind = "DevRepo"
    THEN LET b == bin_folder(exe)
         IN  IF b.kind = "Err" THEN b
             ELSE expect_path(join(b.path, <<"kani-compiler">>), disk)
    ELSE expect_path(join(install.path, <<"bin", "kani-compiler">>), disk)

\* InstallType::base_path_with
base_path_with(install, subpath, disk) == expect_path(join(install.path, subpath), disk)

\* InstallType::kani_lib_c
kani_lib_c(install, disk) == base_path_with(install, <<"library", "kani", "kani_lib.c">>, disk)

\* init_logger: tracing::subscriber::set_global_default(..).unwrap() fails
\* once a global default subscriber is set
init_logger(logger_set) ==
    IF logger_set THEN [panic |-> TRUE, logger_set |-> TRUE, inits |-> 0]
    ELSE [panic |-> FALSE, logger_set |-> TRUE, inits |-> 1]

\* KaniSession::new after init_logger returned
KaniSession_new(exe, disk) ==
    LET install == InstallType_new(exe)
    IN  IF install.kind = "Err" THEN [result |-> install, compiler |-> <<>>, lib_c |-> <<>>]
        ELSE LET c == kani_compiler(install, exe, disk)
                 l == kani_lib_c(install, disk)
             IN  IF c.kind = "Err" THEN [result |-> c, compiler |-> <<>>, lib_c |-> <<>>]
                 ELSE IF l.kind = "Err" THEN [result |-> l, compiler |-> <<>>, lib_c |-> <<>>]
                 ELSE [result |-> IOk("KaniSession", install.path),
                       compiler |-> c.path, lib_c |-> l.path]

\* the files whose presence the accessors may test for the executable in `dir`
InterestingFiles(dir) ==
    LET install == InstallType_new([ok |-> TRUE, dir |-> dir])
        root == IF install.kind = "Err" THEN dir ELSE install.path
    IN  {join(dir, <<"kani-compiler">>),
         join(root, <<"bin", "kani-compiler">>),
         join(root, <<"library", "kani", "kani_lib.c">>)}

InitInstall ==
    /\ \E exe \in {[ok |-> FALSE, dir |-> <<>>]}
                    \cup {[ok |-> TRUE, dir |-> d] : d \in DirsUpTo(MaxDepth)} :
          \E disk \in SUBSET InterestingFiles(exe.dir) :
             proc = [exe |-> exe, disk |-> disk, logger_set |-> FALSE, inits |-> 0,
                     panicked |-> FALSE, sessions |-> <<>>, installs |-> <<>>]
    /\ args \in {a \in ArgsSet : ~a.quiet /\ ~a.verbose /\ ~a.keep_temps
                                   /\ a.harness_timeout = "None"}
    /\ fs = [p \in Paths |-> "absent"]
    /\ ExecIdle
    /\ SessionNew
    /\ pb = NoPlayback /\ thr = NoThreads /\ harness = NoHarness

\* InstallType::new applied to the process's executable, then both path
\* accessors of the resolved installation
ResolveInstall ==
    /\ ~proc.panicked
    /\ Len(proc.installs) < MaxResolves
    /\ LET install == InstallType_new(proc.exe)
           found == IF install.kind = "Err"
                    THEN [install |-> install, compiler |-> NotCalled, lib_c |-> NotCalled]
                    ELSE [install |-> install,
                          compiler |-> kani_compiler(install, proc.exe, proc.disk),
                          lib_c |-> kani_lib_c(install, proc.disk)]
       IN  proc' = [proc EXCEPT !.installs = Append(@, found)]
    /\ UNCHANGED <<args, execVars, sessionVars, pb, thr, harness>>

\* KaniSession::new
NewSession ==
    /\ ~proc.panicked
    /\ Len(proc.sessions) < MaxSessions
    /\ LET log == init_logger(proc.logger_set)
           new == IF log.panic
                  THEN [result |-> IPanic, compiler |-> <<>>, lib_c |-> <<>>]
                  ELSE KaniSession_new(proc.exe, proc.disk)
       IN  proc' = [proc EXCEPT !.logger_set = log.logger_set,
                                !.inits = @ + log.inits,
                                !.panicked = log.panic,
                                !.sessions = Append(@, new)]
    /\ UNCHANGED <<args, execVars, sessionVars, pb, thr, harness>>

NextInstall ==
    \/ ResolveInstall
    \/ NewSession

SpecInstall == InitInstall /\ [][NextInstall]_vars

(***************************************************************************)
(* Installation claims                                                     *)
(***************************************************************************)
\* the classification of a directory, read off its last components
HasDevSignature(d) ==
    /\ Len(d) >= 3
    /\ d[Len(d) - 2] = "target" /\ d[Len(d) - 1] = "kani" /\ d[Len(d)] = "bin"
LastIsBin(d) == Len(d) >= 1 /\ d[Len(d)] = "bin"
Stripped(d, n) == [i \in 1..(Len(d) - n) |-> d[i]]

\* C15: InstallType::new depends only on the directory of the running
\* executable: DevRepo with three segments stripped when the directory ends
\* with target/kani/bin, otherwise Release with one segment stripped when the
\* last segment is bin, otherwise a failure naming the directory; every call
\* in the process gives the same outcome and a directory ending in
\* target/kani/bin is never Release.
C15_InstallTypeIsFunctionOfBinDir ==
    proc.exe.ok =>
       \A i \in 1..Len(proc.installs) :
          LET d == proc.exe.dir
              r == proc.installs[i].install
          IN  /\ HasDevSignature(d) => r = IOk("DevRepo", Stripped(d, 3))
              /\ (~HasDevSignature(d) /\ LastIsBin(d)) => r = IOk("Release", Stripped(d, 1))
              /\ (~HasDevSignature(d) /\ ~LastIsBin(d)) => r.kind = "Err" /\ r.path = d
              /\ r.kind \in {"DevRepo", "Release", "Err"}
              /\ r = proc.installs[1].install
C15_Witness ==
    /\ Len(proc.installs) = 2
    /\ proc.exe.dir = <<"opt", "target", "kani", "bin">>
    /\ proc.installs[2].install = IOk("DevRepo", <<"opt">>)

\* the files each topology requires
CompilerPathOf(d) ==
    IF HasDevSignature(d) THEN d \o <<"kani-compiler">>
    ELSE Stripped(d, 1) \o <<"bin", "kani-compiler">>
LibCPathOf(d) ==
    (IF HasDevSignature(d) THEN Stripped(d, 3) ELSE Stripped(d, 1))
       \o <<"library", "kani", "kani_lib.c">>
Resolvable == proc.exe.ok /\ LastIsBin(proc.exe.dir)
NamesMissing(r, name, path) == r.kind = "Err" /\ r.file = name /\ r.path = path

\* C16: kani_compiler and kani_lib_c return a path only if it is on disk when
\* called, and otherwise fail naming the file name and the full searched path
\* (DevRepo: the compiler in the executable's directory, Release: under
\* <root>/bin); KaniSession::new creates no session when the compiler or the
\* support file is missing.
C16_AccessorsReturnExistingPaths ==
    Resolvable =>
       LET cp == CompilerPathOf(proc.exe.dir)
           lp == LibCPathOf(proc.exe.dir)
       IN  /\ \A i \in 1..Len(proc.installs) :
                 LET c == proc.installs[i].compiler
                     l == proc.installs[i].lib_c
                 IN  /\ c.kind # "Err" => c.path = cp /\ cp \in proc.disk
                     /\ l.kind # "Err" => l.path = lp /\ lp \in proc.disk
                     /\ cp \notin proc.disk => NamesMissing(c, "kani-compiler", cp)
                     /\ lp \notin proc.disk => NamesMissing(l, "kani_lib.c", lp)
           /\ \A i \in 1..Len(proc.sessions) :
                 LET new == proc.sessions[i]
                 IN  /\ new.result.kind = "KaniSession" =>
                           /\ {cp, lp} \subseteq proc.disk
                           /\ new.compiler = cp /\ new.lib_c = lp
                     /\ (i = 1 /\ cp \notin proc.disk) =>
                           NamesMissing(new.result, "kani-compiler", cp)
                     /\ (i = 1 /\ cp \in proc.disk /\ lp \notin proc.disk) =>
                           NamesMissing(new.result, "kani_lib.c", lp)
C16_Witness ==
    /\ proc.exe.dir = <<"opt", "target", "kani", "bin">>
    /\ proc.disk = {<<"opt", "bin", "kani-compiler">>,
                    <<"opt", "library", "kani", "kani_lib.c">>}
    /\ Len(proc.installs) = 1 /\ Len(proc.sessions) = 1
    /\ NamesMissing(proc.sessions[1].result, "kani-compiler",
                    <<"opt", "target", "kani", "bin", "kani-compiler">>)
    /\ proc.installs[1].lib_c.kind = "path"

\* C17: over any sequence of KaniSession constructions in one process the
\* diagnostics output is initialized exactly once, and no later construction
\* fails because it is already initialized.
C17_LaterConstructionsAreGuarded ==
    /\ proc.inits <= 1
    /\ Len(proc.sessions) >= 1 => proc.inits = 1
    /\ \A i \in 1..Len(proc.sessions) : proc.sessions[i].result.kind # "Panic"

(***************************************************************************)
(* Standalone playback: build the test binary, report it, run it           *)
(***************************************************************************)
TEST_BIN_NAME == "kani_concrete_playback"
InputFile == "input.rs"
MessageFormats == {"Json", "Human"}
\* longest list of test arguments given by the user
MaxTestArgs == 2
TestArgWords == {"--nocapture", "t1"}
TestArgs == UNION {[1..n -> TestArgWords] : n \in 0..MaxTestArgs}

\* std::process::Command with its arguments
CommandWithArgs(program, arguments) == [program |-> program, args |-> arguments]

\* Path::canonicalize of a relative name: an absolute path when it exists
canonicalize(name, exists) ==
    IF exists THEN Ok("/cwd/" \o name)
    ELSE Err("No such file or directory", name, "")

\* errors of the installation functions, propagated with `?`
Propagate(r) == Err(r.msg, r.file, "")

\* lib_playback_folder: base_folder()?.join("playback/lib")
lib_playback_folder(exe) ==
    LET b == bin_folder(exe)
    IN  IF b.kind = "Err" THEN b
        ELSE IF b.path = <<>>
             THEN IErr("Failed to find Kani's base installation folder.", "", b.path)
        ELSE IOk("dir", join(pop(b.path), <<"playback", "lib">>))

\* util::info_operation: a progress message
info_operation(op, msg) == <<[tag |-> op, text |-> msg]>>

print_artifact_always_human(artifact, format) ==
    <<[tag |-> "artifact", text |-> "Executable " \o artifact]>>

\* print_artifact: the one line written to stdout
print_artifact(artifact, format) ==
    IF format = "Json"
    THEN <<[tag |-> "artifact", text |-> "{\"artifact\":\"" \o artifact \o "\"}"]>>
    ELSE <<[tag |-> "artifact", text |-> "Executable " \o artifact]>>

\* what build_test and run_test leave behind
StepDone(result, out, info, spawned) ==
    [result |-> result, out |-> out, info |-> info, spawned |-> spawned]

\* the arguments build_test adds to the base rustc flags
BuildRustcArgs(a) ==
    <<"--test", InputFile, "--crate-name=" \o TEST_BIN_NAME>>
       \o (IF a.verbose THEN <<"--verbose">> ELSE <<>>)
       \o (IF a.message_format = "Json" THEN <<"--error-format=json">> ELSE <<>>)

build_test_ignores_compiler_failure(install, a, exe, disk, os, produced) ==
    LET info == IF ~a.quiet THEN info_operation("Building", InputFile) ELSE <<>>
        lib == lib_playback_folder(exe)
        compiler == kani_compiler(install, exe, disk)
        v == [quiet |-> a.quiet, verbose |-> a.verbose]
        ran == RunTerminal(v, NewCommand("kani-compiler"), os)
        cmd == CommandWithArgs("kani-compiler", BuildRustcArgs(a))
    IN  IF lib.kind = "Err" THEN StepDone(Propagate(lib), <<>>, info, <<>>)
        ELSE IF compiler.kind = "Err" THEN StepDone(Propagate(compiler), <<>>, info, <<>>)
        ELSE StepDone(canonicalize(TEST_BIN_NAME, produced), ran.out, info, <<cmd>>)

\* build_test
build_test(install, a, exe, disk, os, produced) ==
    LET info == IF ~a.quiet THEN info_operation("Building", InputFile) ELSE <<>>
        lib == lib_playback_folder(exe)
        compiler == kani_compiler(install, exe, disk)
        v == [quiet |-> a.quiet, verbose |-> a.verbose]
        ran == RunTerminal(v, NewCommand("kani-compiler"), os)
        cmd == CommandWithArgs("kani-compiler", BuildRustcArgs(a))
    IN  IF lib.kind = "Err" THEN StepDone(Propagate(lib), <<>>, info, <<>>)
        ELSE IF compiler.kind = "Err" THEN StepDone(Propagate(compiler), <<>>, info, <<>>)
        ELSE IF ran.result.kind = "Err" THEN StepDone(ran.result, ran.out, info, <<cmd>>)
        ELSE StepDone(canonicalize(TEST_BIN_NAME, produced), ran.out, info, <<cmd>>)

\* whether a sequence contains a value
contains(seq, x) == \E i \in 1..Len(seq) : seq[i] = x

RunArgs_injects_whenever_verbose(a) ==
    (IF a.verbose THEN <<"--nocapture">> ELSE <<>>) \o a.test_args

\* the arguments run_test gives to the test binary
RunArgs(a) ==
    (IF a.verbose /\ ~contains(a.test_args, "--nocapture") THEN <<"--nocapture">> ELSE <<>>)
       \o a.test_args

run_test_swallows_failure(artifact, a, os) ==
    LET v == [quiet |-> a.quiet, verbose |-> a.verbose]
        ran == RunTerminal(v, NewCommand(artifact), os)
    IN  StepDone(Ok("()"), ran.out, <<>>, <<CommandWithArgs(artifact, RunArgs(a))>>)

\* run_test
run_test(artifact, a, os) ==
    LET v == [quiet |-> a.quiet, verbose |-> a.verbose]
        ran == RunTerminal(v, NewCommand(artifact), os)
    IN  StepDone(ran.result, ran.out, <<>>, <<CommandWithArgs(artifact, RunArgs(a))>>)

PlaybackArgs ==
    [quiet : BOOLEAN, verbose : BOOLEAN, message_format : MessageFormats,
     only_codegen : BOOLEAN, test_args : TestArgs]

PlaybackExes ==
    {[ok |-> TRUE, dir |-> d] :
        d \in {<<"opt", "target", "kani", "bin">>, <<"opt", "bin">>, <<"opt">>}}

InitPlayback ==
    /\ \E a \in PlaybackArgs, exe \in PlaybackExes :
          \E disk \in SUBSET {join(exe.dir, <<"kani-compiler">>)} :
             pb = [state |-> "Start", a |-> a, exe |-> exe, disk |-> disk,
                   steps |-> <<>>, stdout |-> <<>>, info |-> <<>>, spawned |-> <<>>,
                   build_os |-> NoOs, produced |-> FALSE, run_os |-> NoOs,
                   artifact |-> Pending, result |-> Pending]
    /\ args \in {a \in ArgsSet : ~a.quiet /\ ~a.verbose /\ ~a.keep_temps
                                   /\ a.harness_timeout = "None"}
    /\ fs = [p \in Paths |-> "absent"]
    /\ ExecIdle
    /\ SessionNew
    /\ proc = NoProcess /\ thr = NoThreads /\ harness = NoHarness

\* playback_standalone up to the end of build_test
PbBuild ==
    /\ pb.state = "Start"
    /\ \E os \in OsBehaviours, produced \in BOOLEAN :
          LET install == InstallType_new(pb.exe)
              built == IF install.kind = "Err"
                       THEN StepDone(Propagate(install), <<>>, <<>>, <<>>)
                       ELSE build_test(install, pb.a, pb.exe, pb.disk, os, produced)
          IN  pb' = [pb EXCEPT !.state = IF built.result.kind = "Ok" THEN "Built" ELSE "Failed",
                               !.steps = Append(@, "build"),
                               !.stdout = @ \o built.out,
                               !.info = @ \o built.info,
                               !.spawned = @ \o built.spawned,
                               !.build_os = os,
                               !.produced = produced,
                               !.artifact = built.result,
                               !.result = IF built.result.kind = "Ok" THEN @ ELSE built.result]
    /\ UNCHANGED <<args, execVars, sessionVars, proc, thr, harness>>

\* if !quiet { print_artifact(..) }
PbReport ==
    /\ pb.state = "Built"
    /\ ~pb.a.quiet
    /\ pb' = [pb EXCEPT !.state = "Reported",
                        !.steps = Append(@, "report"),
                        !.stdout = @ \o print_artifact(pb.artifact.value, pb.a.message_format)]
    /\ UNCHANGED <<args, execVars, sessionVars, proc, thr, harness>>

\* the point of playback_standalone after the report, made or skipped
PastReport == pb.state = "Reported" \/ (pb.state = "Built" /\ pb.a.quiet)

\* if !only_codegen { run_test(..)? }
PbRun ==
    /\ PastReport
    /\ ~pb.a.only_codegen
    /\ \E os \in OsBehaviours :
          LET ran == run_test(pb.artifact.value, pb.a, os)
          IN  pb' = [pb EXCEPT !.state = IF ran.result.kind = "Ok" THEN "Ran" ELSE "Failed",
                               !.steps = Append(@, "run"),
                               !.stdout = @ \o ran.out,
                               !.spawned = @ \o ran.spawned,
                               !.run_os = os,
                               !.result = IF ran.result.kind = "Ok" THEN @ ELSE ran.result]
    /\ UNCHANGED <<args, execVars, sessionVars, proc, thr, harness>>

\* only_codegen: the run step is skipped
PbSkipRun ==
    /\ PastReport
    /\ pb.a.only_codegen
    /\ pb' = [pb EXCEPT !.state = "SkippedRun"]
    /\ UNCHANGED <<args, execVars, sessionVars, proc, thr, harness>>

\* Ok(())
PbEnd ==
    /\ pb.state \in {"Ran", "SkippedRun"}
    /\ pb' = [pb EXCEPT !.state = "End", !.result = Ok("()")]
    /\ UNCHANGED <<args, execVars, sessionVars, proc, thr, harness>>

NextPlayback ==
    \/ PbBuild
    \/ PbReport
    \/ PbRun
    \/ PbSkipRun
    \/ PbEnd

SpecPlayback == InitPlayback /\ [][NextPlayback]_vars

(***************************************************************************)
(* Playback claims                                                         *)
(***************************************************************************)
\* what the environment of the build step was, whatever the code made of it
BuildSucceeds ==
    /\ pb.exe.ok /\ LastIsBin(pb.exe.dir)
    /\ CompilerPathOf(pb.exe.dir) \in pb.disk
    /\ pb.build_os.spawn_ok /\ pb.build_os.status = ExitOk
    /\ pb.produced
PlaybackOver == pb.state \in {"End", "Failed"}
Did(step) == \E i \in 1..Len(pb.steps) : pb.steps[i] = step
ArtifactLines == {i \in 1..Len(pb.stdout) : pb.stdout[i].tag = "artifact"}
ArtifactPath == "/cwd/kani_concrete_playback"
RunsOf(program) == {i \in 1..Len(pb.spawned) : pb.spawned[i].program = program}

PlaybackEdges ==
    {<<"Start", "Built">>, <<"Start", "Failed">>, <<"Built", "Reported">>,
     <<"Built", "Ran">>, <<"Built", "SkippedRun">>, <<"Built", "Failed">>,
     <<"Reported", "Ran">>, <<"Reported", "SkippedRun">>, <<"Reported", "Failed">>,
     <<"Ran", "End">>, <<"SkippedRun", "End">>}

AlongAnEdge == pb'.state = pb.state \/ <<pb.state, pb'.state>> \in PlaybackEdges

\* C11: standalone playback is linear: the build happens once and first, the
\* report only after a successful build and before the run, no step twice, no
\* state revisited, and a failed build (installation, compiler, or
\* canonicalization) is followed by neither report nor run.
C11_PlaybackIsLinear ==
    /\ [](/\ pb.steps \in {<<>>, <<"build">>, <<"build", "report">>, <<"build", "run">>,
                           <<"build", "report", "run">>}
          /\ (Did("build") /\ ~BuildSucceeds) =>
                pb.steps = <<"build">> /\ pb.state = "Failed" /\ ArtifactLines = {}
                   /\ RunsOf(ArtifactPath) = {}
          /\ pb.state = "Start" <=> pb.steps = <<>>
          /\ pb.state = "Built" => pb.steps = <<"build">>
          /\ pb.state = "Reported" => pb.steps = <<"build", "report">>
          /\ pb.state = "Ran" => Did("run")
          /\ pb.state = "SkippedRun" => Did("build") /\ ~Did("run"))
    /\ [][AlongAnEdge]_vars
C11_Witness ==
    /\ pb.state = "End" /\ pb.steps = <<"build", "report", "run">>

\* C12: the artifact report is written exactly once iff the build succeeded
\* and quiet is not set, never when quiet; it is the one line
\* {"artifact":"<path>"} for Json and Executable <path> for Human, whether or
\* not the run step is requested.
C12_ArtifactReportedOnceUnlessQuiet ==
    /\ Cardinality(ArtifactLines) <= 1
    /\ pb.a.quiet => ArtifactLines = {}
    /\ (PlaybackOver \/ Did("run") \/ pb.state = "SkippedRun") =>
          (Cardinality(ArtifactLines) = 1 <=> (BuildSucceeds /\ ~pb.a.quiet))
    /\ \A i \in ArtifactLines :
          pb.stdout[i].text =
             IF pb.a.message_format = "Json"
             THEN "{\"artifact\":\"/cwd/kani_concrete_playback\"}"
             ELSE "Executable /cwd/kani_concrete_playback"
C12_Witness ==
    /\ pb.state = "End" /\ pb.a.only_codegen /\ ~pb.a.quiet /\ ~pb.a.verbose
    /\ pb.a.message_format = "Json"
    /\ Len(pb.stdout) = 1
    /\ pb.stdout[1].text = "{\"artifact\":\"/cwd/kani_concrete_playback\"}"

\* C13: with a compilable input, Json format and quiet not set, everything
\* the driver writes to stdout over the whole playback is the single artifact
\* line: no progress message, command echo or timing line before or after it.
C13_JsonStdoutIsOnlyTheArtifact ==
    (PlaybackOver /\ BuildSucceeds /\ pb.a.message_format = "Json" /\ ~pb.a.quiet) =>
       /\ Len(pb.stdout) = 1
       /\ pb.stdout[1].text = "{\"artifact\":\"/cwd/kani_concrete_playback\"}"

\* C14: the run step executes iff the build succeeded and only-codegen was
\* not requested; with only-codegen the binary is never executed and playback
\* succeeds after the build; when the run step executes it runs once and its
\* success or failure is the result of playback.
C14_RunIffBuiltAndNotOnlyCodegen ==
    /\ Cardinality(RunsOf(ArtifactPath)) <= 1
    /\ Did("run") <=> RunsOf(ArtifactPath) # {}
    /\ Did("run") => BuildSucceeds /\ ~pb.a.only_codegen
    /\ PlaybackOver => (Did("run") <=> (BuildSucceeds /\ ~pb.a.only_codegen))
    /\ (PlaybackOver /\ BuildSucceeds /\ pb.a.only_codegen) =>
          pb.state = "End" /\ pb.result = Ok("()")
    /\ (PlaybackOver /\ Did("run")) =>
          pb.result = IF ~pb.run_os.spawn_ok THEN Err("Failed to invoke", ArtifactPath, "")
                      ELSE IF pb.run_os.status # ExitOk
                           THEN Err("exited with status", ArtifactPath, pb.run_os.status)
                      ELSE Ok("()")
C14_Witness ==
    /\ pb.state = "Failed" /\ Did("run") /\ pb.run_os.spawn_ok
    /\ pb.result = Err("exited with status", ArtifactPath, ExitFail)

(***************************************************************************)
(* The registry of temporary files shared between threads.                 *)
(* temporaries: Mutex<Vec<PathBuf>>; record_temporary_files locks it and   *)
(* extends the vector element by element; Drop locks it and iterates.      *)
(* Ownership orders Drop after every call on the session; the threads here *)
(* do not rely on that order, only on the mutex: Drop may ask for the lock *)
(* while calls are still in progress.                                      *)
(***************************************************************************)
\* longest batch given to one record_temporary_files call
MaxBatch == 2
\* calls of record_temporary_files made by one thread
MaxRecordCalls == 2

Threads == {"t1", "t2"}
DropThread == "drop"
Unlocked == "unlocked"

\* the paths of one call: path i of the k-th batch of thread t, of n
Batch(t, k, n) == [i \in 1..n |-> [by |-> t, call |-> k, idx |-> i, of |-> n]]

can_lock_always(mutex) == TRUE

\* Mutex::lock returns once no other thread holds the guard
can_lock(mutex) == mutex = Unlocked

InitThreads ==
    /\ thr = [mutex |-> Unlocked,
              registry |-> <<>>,
              pc |-> [t \in Threads |-> "idle"],
              temps |-> [t \in Threads |-> <<>>],
              pushed |-> [t \in Threads |-> 0],
              calls |-> [t \in Threads |-> 0],
              dpc |-> "idle",
              locked_at |-> <<>>,
              iterated |-> <<>>]
    /\ args \in {a \in ArgsSet : ~a.quiet /\ ~a.verbose /\ a.harness_timeout = "None"}
    /\ fs = [p \in Paths |-> "absent"]
    /\ ExecIdle
    /\ SessionNew
    /\ pb = NoPlayback /\ proc = NoProcess /\ harness = NoHarness

\* a thread calls record_temporary_files(temps)
ThrCall(t) ==
    /\ thr.pc[t] = "idle"
    /\ thr.dpc = "idle"
    /\ thr.calls[t] < MaxRecordCalls
    /\ \E n \in 0..MaxBatch :
          thr' = [thr EXCEPT !.pc[t] = "lock",
                             !.temps[t] = Batch(t, thr.calls[t] + 1, n),
                             !.pushed[t] = 0,
                             !.calls[t] = @ + 1]
    /\ UNCHANGED <<args, execVars, sessionVars, pb, proc, harness>>

\* let mut t = self.temporaries.lock().unwrap()
ThrLock(t) ==
    /\ thr.pc[t] = "lock"
    /\ can_lock(thr.mutex)
    /\ thr' = [thr EXCEPT !.pc[t] = "extend", !.mutex = t]
    /\ UNCHANGED <<args, execVars, sessionVars, pb, proc, harness>>

\* t.extend(..): one path is pushed
ThrPush(t) ==
    /\ thr.pc[t] = "extend"
    /\ thr.pushed[t] < Len(thr.temps[t])
    /\ thr' = [thr EXCEPT !.registry = Append(@, thr.temps[t][thr.pushed[t] + 1]),
                          !.pushed[t] = @ + 1]
    /\ UNCHANGED <<args, execVars, sessionVars, pb, proc, harness>>

\* the guard goes out of scope at the end of record_temporary_files
ThrUnlock(t) ==
    /\ thr.pc[t] = "extend"
    /\ thr.pushed[t] = Len(thr.temps[t])
    /\ thr' = [thr EXCEPT !.pc[t] = "idle", !.mutex = Unlocked]
    /\ UNCHANGED <<args, execVars, sessionVars, pb, proc, harness>>

\* Drop for KaniSession begins: if !self.args.keep_temps
ThrDropBegin ==
    /\ thr.dpc = "idle"
    /\ thr' = [thr EXCEPT !.dpc = IF args.keep_temps THEN "done" ELSE "lock"]
    /\ UNCHANGED <<args, execVars, sessionVars, pb, proc, harness>>

\* let temporaries = self.temporaries.lock().unwrap()
ThrDropLock ==
    /\ thr.dpc = "lock"
    /\ can_lock(thr.mutex)
    /\ thr' = [thr EXCEPT !.dpc = "iterate", !.mutex = DropThread,
                          !.locked_at = thr.registry]
    /\ UNCHANGED <<args, execVars, sessionVars, pb, proc, harness>>

\* for file in temporaries.iter() { remove_file(file) }: one iteration
ThrDropRemove ==
    /\ thr.dpc = "iterate"
    /\ Len(thr.iterated) < Len(thr.registry)
    /\ thr' = [thr EXCEPT !.iterated = Append(@, thr.registry[Len(thr.iterated) + 1])]
    /\ UNCHANGED <<args, execVars, sessionVars, pb, proc, harness>>

\* the iteration is over and the guard is dropped
ThrDropUnlock ==
    /\ thr.dpc = "iterate"
    /\ Len(thr.iterated) >= Len(thr.registry)
    /\ thr' = [thr EXCEPT !.dpc = "done", !.mutex = Unlocked]
    /\ UNCHANGED <<args, execVars, sessionVars, pb, proc, harness>>

NextThreads ==
    \/ \E t \in Threads : ThrCall(t)
    \/ \E t \in Threads : ThrLock(t)
    \/ \E t \in Threads : ThrPush(t)
    \/ \E t \in Threads : ThrUnlock(t)
    \/ ThrDropBegin
    \/ ThrDropLock
    \/ ThrDropRemove
    \/ ThrDropUnlock

SpecThreads == InitThreads /\ [][NextThreads]_vars

(***************************************************************************)
(* Concurrency claim                                                       *)
(***************************************************************************)
Extending == {t \in Threads : thr.pc[t] = "extend"}
\* the paths of the batch of entry j that the registry holds, in place
WholeBatchAt(reg, j) ==
    LET e == reg[j]
        first == j - e.idx
    IN  /\ first + e.of <= Len(reg)
        /\ \A m \in 1..e.of : reg[first + m] = [e EXCEPT !.idx = m]
\* the paths of entry j's batch appended so far are in place, in order
BatchPrefixAt(reg, j) ==
    LET e == reg[j]
        first == j - e.idx
    IN  \A m \in 1..e.idx : first + m >= 1 /\ reg[first + m] = [e EXCEPT !.idx = m]
InProgress(e) == thr.pc[e.by] = "extend" /\ thr.calls[e.by] = e.call
PushedSoFar(t) ==
    Cardinality({j \in 1..Len(thr.registry) :
                    thr.registry[j].by = t /\ thr.registry[j].call = thr.calls[t]})

\* C20: accesses to the registry exclude each other: every batch is appended
\* atomically (its paths contiguous, in order, none lost, none twice) however
\* the calls of different threads and teardown interleave, and teardown
\* iterates a registry nobody modifies, holding whole batches only.
C20_RegistryAccessesAreExclusive ==
    /\ Cardinality(Extending) + (IF thr.dpc = "iterate" THEN 1 ELSE 0) <= 1
    /\ \A t \in Extending : thr.mutex = t /\ PushedSoFar(t) = thr.pushed[t]
    /\ \A j \in 1..Len(thr.registry) :
          /\ BatchPrefixAt(thr.registry, j)
          /\ ~InProgress(thr.registry[j]) => WholeBatchAt(thr.registry, j)
          /\ \A k \in 1..Len(thr.registry) : thr.registry[k] = thr.registry[j] => k = j
    /\ \A t \in Threads :
          thr.pc[t] = "idle" /\ thr.calls[t] > 0 => PushedSoFar(t) = Len(thr.temps[t])
    /\ thr.dpc \in {"iterate", "done"} /\ ~args.keep_temps =>
          /\ \A j \in 1..Len(thr.locked_at) : WholeBatchAt(thr.locked_at, j)
          /\ IsPrefix(thr.iterated, thr.locked_at)
    /\ thr.dpc = "iterate" => thr.registry = thr.locked_at /\ thr.mutex = DropThread
    /\ thr.dpc = "done" /\ ~args.keep_temps => thr.iterated = thr.locked_at
C20_Witness ==
    /\ thr.dpc = "done" /\ ~args.keep_temps
    /\ Len(thr.iterated) = 3
    /\ thr.iterated[1].by = "t1" /\ thr.iterated[2].by = "t1" /\ thr.iterated[3].by = "t2"
    /\ thr.pc["t1"] = "lock" /\ thr.calls["t1"] = 2
    /\ Len(thr.registry) = 3

(***************************************************************************)
(* Wiring and echo of the terminal policies, delegation of run_suppress    *)
(***************************************************************************)
TerminalPolicies == {"run_terminal", "run_terminal_timeout"}
EchoLines(out) == {i \in 1..Len(out) : out[i].tag = "[Kani] Running:"}
RawLines(out) == {i \in 1..Len(out) : out[i].tag = "raw"}
\* the child of the call obs describes has been spawned, or the spawn failed
SpawnAttempted == obs.spawns = 1

\* C21: run_terminal and run_terminal_timeout discard the child's stdout and
\* stderr iff quiet and let it inherit the driver's otherwise; when verbose
\* the command line is printed before the child is spawned, and only then.
\* So the child's output is visible iff not quiet, whether it succeeds or
\* fails.
C21_TerminalWiringAndEcho ==
    (obs.policy \in TerminalPolicies /\ SpawnAttempted) =>
       /\ obs.stdout = (IF args.quiet THEN "null" ELSE "inherit")
       /\ obs.stderr = (IF args.quiet THEN "null" ELSE "inherit")
       /\ args.verbose => obs.out # <<>> /\ obs.out[1] = RunningLine(InputCommand)
                             /\ EchoLines(obs.out) = {1}
       /\ ~args.verbose => obs.out = <<>>
       /\ OutputVisible <=> ~args.quiet
       /\ RawLines(obs.out) = {}
C21_Witness ==
    /\ obs.policy = "run_terminal_timeout" /\ pc = "race" /\ child.state = "running"
    /\ args.verbose /\ args.quiet
    /\ obs.out = <<RunningLine(InputCommand)>>
    /\ obs.stdout = "null" /\ obs.stderr = "null"

\* C22: with quiet or verbose set run_suppress is run_terminal on the same
\* command: same wiring, same echo and timing lines, same result, nothing
\* captured or written back; only with neither set are the streams captured.
C22_SuppressDelegatesWhenSet ==
    obs.policy = "run_suppress" =>
       /\ is_set(Verbosity) =>
             LET o == RunTerminal(Verbosity, InputCommand, obs.os)
             IN  /\ obs.cmd = o.cmd
                 /\ obs.stdout = o.stdout /\ obs.stderr = o.stderr
                 /\ obs.out = o.out
                 /\ obs.result = o.result
                 /\ child = o.child
                 /\ "piped" \notin {obs.stdout, obs.stderr}
                 /\ RawLines(obs.out) = {}
       /\ ("piped" \in {obs.stdout, obs.stderr} \/ RawLines(obs.out) # {}) =>
             ~args.quiet /\ ~args.verbose
       /\ (~args.quiet /\ ~args.verbose) => obs.stdout = "piped" /\ obs.stderr = "piped"
C22_Witness ==
    /\ Ended("run_suppress") /\ args.verbose /\ ~args.quiet
    /\ obs.os.spawn_ok /\ obs.os.status = ExitFail
    /\ obs.out = <<RunningLine(InputCommand), FinishedLine(obs.cmd.program)>>
    /\ obs.stdout = "inherit"

(***************************************************************************)
(* Argument lists of the playback commands                                 *)
(***************************************************************************)
CountOf(seq, x) == Cardinality({i \in 1..Len(seq) : seq[i] = x})

\* C23: run_test injects --nocapture iff verbose and the user's test
\* arguments do not contain it; the injected flag is first and the user's
\* arguments follow unchanged and in order; so the flag appears at most once
\* more than the user gave it and exactly as often when the user gave it.
C23_NocaptureInjectedOnceAndFirst ==
    \A i \in RunsOf(ArtifactPath) :
       LET given == pb.a.test_args
           passed == pb.spawned[i].args
           injects == pb.a.verbose /\ CountOf(given, "--nocapture") = 0
       IN  /\ injects =>
                /\ Len(passed) = Len(given) + 1
                /\ passed[1] = "--nocapture"
                /\ \A j \in 1..Len(given) : passed[j + 1] = given[j]
           /\ ~injects =>
                /\ Len(passed) = Len(given)
                /\ \A j \in 1..Len(given) : passed[j] = given[j]
           /\ CountOf(passed, "--nocapture") <= CountOf(given, "--nocapture") + 1
           /\ CountOf(given, "--nocapture") >= 1 =>
                CountOf(passed, "--nocapture") = CountOf(given, "--nocapture")
C23_Witness ==
    /\ Did("run") /\ pb.a.verbose
    /\ pb.a.test_args = <<"t1", "t1">>
    /\ \E i \in RunsOf(ArtifactPath) : pb.spawned[i].args = <<"--nocapture", "t1", "t1">>

(***************************************************************************)
(* Project-scoped playback: cargo_test                                     *)
(***************************************************************************)
\* Path::display
RECURSIVE display(_)
display(path) == IF path = <<>> THEN "" ELSE "/" \o Head(path) \o display(Tail(path))

\* what args.cargo.to_cargo_args() and cargo_config_args() may return
CargoPassthrough == {<<>>, <<"--features=f">>}
CargoConfigArgs == {<<>>, <<"--config=c">>}

\* a cargo command: program, the arguments setup_cargo_command gave it, the
\* list given to pass_cargo_args, and the environment set on it
CargoCommand(program, toolchain, cargo_args, env) ==
    [program |-> program, toolchain |-> toolchain, args |-> cargo_args, env |-> env]

\* setup_cargo_command: no profiling path, so never under samply
setup_cargo_command(exe) ==
    LET install == InstallType_new(exe)
    IN  IF install.kind = "Err" THEN install
        ELSE IF install.kind = "DevRepo"
             THEN [kind |-> "Command", msg |-> "", file |-> "cargo", path |-> <<"+toolchain">>]
        ELSE [kind |-> "Command", msg |-> "",
              file |-> display(join(install.path, <<"toolchain", "bin", "cargo">>)),
              path |-> <<>>]

CargoArgs_quiet_and_verbose(a) ==
    <<"test">>
       \o (IF a.verbose THEN <<"-vv">> ELSE <<>>)
       \o (IF a.quiet THEN <<"--quiet">> ELSE <<>>)
       \o (IF a.message_format = "Json" THEN <<"--message-format=json">> ELSE <<>>)
       \o (IF a.only_codegen THEN <<"--no-run">> ELSE <<>>)
       \o a.cargo
       \o a.config
       \o (IF a.test_args # <<>> THEN <<"--">> \o a.test_args ELSE <<>>)

\* cargo_args of cargo_test
CargoArgs(a) ==
    <<"test">>
       \o (IF a.verbose THEN <<"-vv">> ELSE IF a.quiet THEN <<"--quiet">> ELSE <<>>)
       \o (IF a.message_format = "Json" THEN <<"--message-format=json">> ELSE <<>>)
       \o (IF a.only_codegen THEN <<"--no-run">> ELSE <<>>)
       \o a.cargo
       \o a.config
       \o (IF a.test_args # <<>> THEN <<"--">> \o a.test_args ELSE <<>>)

\* cargo_test
cargo_test(a, exe, disk, os) ==
    LET install == InstallType_new(exe)
        cargo == setup_cargo_command(exe)
        lib == lib_playback_folder(exe)
        compiler == kani_compiler(install, exe, disk)
        v == [quiet |-> a.quiet, verbose |-> a.verbose]
    IN  IF install.kind = "Err" THEN StepDone(Propagate(install), <<>>, <<>>, <<>>)
        ELSE IF cargo.kind = "Err" THEN StepDone(Propagate(cargo), <<>>, <<>>, <<>>)
        ELSE IF lib.kind = "Err" THEN StepDone(Propagate(lib), <<>>, <<>>, <<>>)
        ELSE IF compiler.kind = "Err" THEN StepDone(Propagate(compiler), <<>>, <<>>, <<>>)
        ELSE LET ran == RunTerminal(v, NewCommand(cargo.file), os)
                 cmd == CargoCommand(cargo.file, cargo.path, CargoArgs(a),
                                     {<<"RUSTC", display(compiler.path)>>,
                                      <<"CARGO_TERM_PROGRESS_WHEN", "never">>})
             IN  StepDone(ran.result, ran.out, <<>>, <<[cmd EXCEPT !.program = ran.cmd.program]>>)
                    @@ [stdio |-> <<ran.stdout, ran.stderr>>]

CargoPlaybackArgs ==
    [quiet : BOOLEAN, verbose : BOOLEAN, message_format : MessageFormats,
     only_codegen : BOOLEAN, test_args : TestArgs,
     cargo : CargoPassthrough, config : CargoConfigArgs]

InitCargoPlayback ==
    /\ \E a \in CargoPlaybackArgs, exe \in PlaybackExes :
          \E disk \in SUBSET {join(exe.dir, <<"kani-compiler">>)} :
             pb = [state |-> "Start", a |-> a, exe |-> exe, disk |-> disk,
                   stdout |-> <<>>, spawned |-> <<>>, stdio |-> <<"", "">>,
                   os |-> NoOs, result |-> Pending]
    /\ args \in {a \in ArgsSet : ~a.quiet /\ ~a.verbose /\ ~a.keep_temps
                                   /\ a.harness_timeout = "None"}
    /\ fs = [p \in Paths |-> "absent"]
    /\ ExecIdle
    /\ SessionNew
    /\ proc = NoProcess /\ thr = NoThreads /\ harness = NoHarness

\* playback_cargo
PlaybackCargo ==
    /\ pb.state = "Start"
    /\ \E os \in OsBehaviours :
          LET done == cargo_test(pb.a, pb.exe, pb.disk, os)
          IN  pb' = [pb EXCEPT !.state = IF done.result.kind = "Ok" THEN "End" ELSE "Failed",
                               !.stdout = done.out,
                               !.spawned = done.spawned,
                               !.stdio = IF done.spawned = <<>> THEN @ ELSE done.stdio,
                               !.os = os,
                               !.result = done.result]
    /\ UNCHANGED <<args, execVars, sessionVars, proc, thr, harness>>

NextCargoPlayback == PlaybackCargo

SpecCargoPlayback == InitCargoPlayback /\ [][NextCargoPlayback]_vars

\* the flags cargo_test itself may add
CargoTestFlags == {"test", "-vv", "--quiet", "--message-format=json", "--no-run"}
\* seq holds part at positions from + 1 .. from + Len(part)
HoldsAt(seq, from, part) ==
    /\ from >= 0 /\ from + Len(part) <= Len(seq)
    /\ \A j \in 1..Len(part) : seq[from + j] = part[j]
CargoSetupSucceeds ==
    /\ pb.exe.ok /\ LastIsBin(pb.exe.dir)
    /\ CompilerPathOf(pb.exe.dir) \in pb.disk

\* C24: the argument list of cargo_test starts with test; it holds -vv iff
\* verbose, --quiet iff quiet and not verbose, --message-format=json iff Json,
\* --no-run iff only-codegen; -- is present iff the user gave test arguments,
\* and then -- and those arguments, in order, come last, after every
\* passthrough and injected argument.  The command runs under run_terminal
\* with RUSTC set to the compiler and CARGO_TERM_PROGRESS_WHEN=never.
C24_CargoTestArguments ==
    pb.state # "Start" =>
       /\ Len(pb.spawned) = (IF CargoSetupSucceeds THEN 1 ELSE 0)
       /\ \A i \in 1..Len(pb.spawned) :
             LET l == pb.spawned[i].args
                 a == pb.a
                 tail == Len(l) - Len(a.test_args)
             IN  /\ l[1] = "test" /\ CountOf(l, "test") = 1
                 /\ CountOf(l, "-vv") = (IF a.verbose THEN 1 ELSE 0)
                 /\ CountOf(l, "--quiet") = (IF a.quiet /\ ~a.verbose THEN 1 ELSE 0)
                 /\ CountOf(l, "-vv") + CountOf(l, "--quiet") <= 1
                 /\ CountOf(l, "--message-format=json") =
                       (IF a.message_format = "Json" THEN 1 ELSE 0)
                 /\ CountOf(l, "--no-run") = (IF a.only_codegen THEN 1 ELSE 0)
                 /\ CountOf(l, "--") = (IF a.test_args # <<>> THEN 1 ELSE 0)
                 /\ a.test_args # <<>> =>
                       /\ tail >= 1 /\ l[tail] = "--"
                       /\ HoldsAt(l, tail, a.test_args)
                 /\ \E from \in 1..Len(l) : HoldsAt(l, from, a.cargo \o a.config)
                 /\ \A j \in 1..Len(l) :
                       (l[j] \in CargoTestFlags \/ contains(a.cargo \o a.config, l[j])) =>
                          (a.test_args # <<>> => j < tail)
                 /\ pb.spawned[i].env =
                       {<<"RUSTC", display(CompilerPathOf(pb.exe.dir))>>,
                        <<"CARGO_TERM_PROGRESS_WHEN", "never">>}
                 /\ pb.stdio = (IF a.quiet THEN <<"null", "null">> ELSE <<"inherit", "inherit">>)
                 /\ pb.result.kind = "Ok" <=> (pb.os.spawn_ok /\ pb.os.status = ExitOk)
                 /\ Len(pb.stdout) = (IF a.verbose THEN 2 ELSE 0)
C24_Witness ==
    /\ pb.state = "End" /\ Len(pb.spawned) = 1
    /\ pb.a.quiet /\ pb.a.verbose
    /\ pb.spawned[1].args = <<"test", "-vv", "--message-format=json", "--no-run",
                              "--features=f", "--config=c", "--", "t1", "--nocapture">>
    /\ pb.spawned[1].program = "cargo"

(***************************************************************************)
(* tests/expected/function-contract/as-assertions/assert-postconditions.rs *)
(* A u32 is kept as two halves, hi * Half + lo, so that the full width is  *)
(* represented.                                                            *)
(***************************************************************************)
\* width of u32
U32Bits == 32
\* #[kani::requires(*add_three_ptr < 100)]
PreconditionBound == 100
\* largest small value kani::any() is drawn from, next to the values just
\* below 2^32
MaxInput == 101

Half == 2 ^ (U32Bits \div 2)
U32(n) == [hi |-> n \div Half, lo |-> n % Half]
NearMax == {[hi |-> Half - 1, lo |-> Half - 1 - k] : k \in 0..3}
Inputs == {U32(n) : n \in 0..MaxInput} \cup NearMax

\* x + n on u32, n < Half: the wrapped value and whether the addition overflowed
add_u32(x, n) ==
    LET lo == x.lo + n
        hi == x.hi + (lo \div Half)
    IN  [value |-> [hi |-> hi % Half, lo |-> lo % Half], overflow |-> hi >= Half]

\* x < n on u32, n < Half
lt_u32(x, n) == x.hi = 0 /\ x.lo < n

requires_nothing(x) == TRUE

\* the precondition of add_three
requires(x) == lt_u32(x, PreconditionBound)

\* the postcondition written on add_two and on add_one:
\* old(*p + 1) == *p, old_value being *p + 1 computed at entry
ensures(old_value, now) == old_value = now

InitHarness ==
    /\ \E i \in Inputs :
          harness = [state |-> "start", input |-> i, p |-> i,
                     entry_two |-> i, old_two |-> i, old_one |-> i,
                     increments |-> 0, overflow |-> FALSE, checks |-> <<>>]
    /\ args \in {a \in ArgsSet : ~a.quiet /\ ~a.verbose /\ ~a.keep_temps
                                   /\ a.harness_timeout = "None"}
    /\ fs = [p \in Paths |-> "absent"]
    /\ ExecIdle
    /\ SessionNew
    /\ pb = NoPlayback /\ proc = NoProcess /\ thr = NoThreads

HarnessOthers == <<args, execVars, sessionVars, pb, proc, thr>>

\* one `*ptr += 1`
Increment(h) ==
    LET r == add_u32(h.p, 1)
    IN  [h EXCEPT !.p = r.value, !.increments = @ + 1, !.overflow = @ \/ r.overflow]

\* prove_add_three: i = kani::any(); add_three is entered under its precondition
ProveAddThree ==
    /\ harness.state = "start"
    /\ harness' = [harness EXCEPT !.state = IF requires(harness.input) THEN "add_three"
                                            ELSE "discarded"]
    /\ UNCHANGED HarnessOthers

\* add_three: *add_three_ptr += 1, then the call of add_two
AddThreeBody ==
    /\ harness.state = "add_three"
    /\ harness' = [Increment(harness) EXCEPT !.state = "add_two entry"]
    /\ UNCHANGED HarnessOthers

\* entry of add_two: old(*add_two_ptr + 1) is evaluated
AddTwoEntry ==
    /\ harness.state = "add_two entry"
    /\ LET r == add_u32(harness.p, 1)
       IN  harness' = [harness EXCEPT !.state = "add_two", !.entry_two = harness.p,
                                      !.old_two = r.value, !.overflow = @ \/ r.overflow]
    /\ UNCHANGED HarnessOthers

\* add_two: *add_two_ptr += 1, then the call of add_one
AddTwoBody ==
    /\ harness.state = "add_two"
    /\ harness' = [Increment(harness) EXCEPT !.state = "add_one entry"]
    /\ UNCHANGED HarnessOthers

\* entry of add_one: old(*add_one_ptr + 1) is evaluated
AddOneEntry ==
    /\ harness.state = "add_one entry"
    /\ LET r == add_u32(harness.p, 1)
       IN  harness' = [harness EXCEPT !.state = "add_one",
                                      !.old_one = r.value, !.overflow = @ \/ r.overflow]
    /\ UNCHANGED HarnessOthers

\* add_one: *add_one_ptr += 1
AddOneBody ==
    /\ harness.state = "add_one"
    /\ harness' = [Increment(harness) EXCEPT !.state = "add_one return"]
    /\ UNCHANGED HarnessOthers

\* add_one returns: its postcondition is asserted
AddOneReturn ==
    /\ harness.state = "add_one return"
    /\ harness' = [harness EXCEPT
                      !.state = "add_two return",
                      !.checks = Append(@, [of |-> "add_one",
                                            holds |-> ensures(harness.old_one, harness.p)])]
    /\ UNCHANGED HarnessOthers

\* add_two returns: its postcondition is asserted; add_three returns
AddTwoReturn ==
    /\ harness.state = "add_two return"
    /\ harness' = [harness EXCEPT
                      !.state = "done",
                      !.checks = Append(@, [of |-> "add_two",
                                            holds |-> ensures(harness.old_two, harness.p)])]
    /\ UNCHANGED HarnessOthers

NextHarness ==
    \/ ProveAddThree
    \/ AddThreeBody
    \/ AddTwoEntry
    \/ AddTwoBody
    \/ AddOneEntry
    \/ AddOneBody
    \/ AddOneReturn
    \/ AddTwoReturn

SpecHarness == InitHarness /\ [][NextHarness]_vars

\* C25: for every u32 input with *p < 100, add_three makes three increments
\* without overflow and leaves *p = old + 3; the postcondition of add_one,
\* old(*p + 1) == *p, holds at every call; add_two adds 2, so what holds for
\* it is old(*p + 2) == *p and not the postcondition written on it.
C25_AddThreeAddsThree ==
    /\ ~harness.overflow
    /\ harness.state \notin {"start", "discarded"} => lt_u32(harness.input, PreconditionBound)
    /\ \A i \in 1..Len(harness.checks) :
          harness.checks[i].of = "add_one" => harness.checks[i].holds
    /\ harness.state = "done" =>
          /\ harness.increments = 3
          /\ harness.p.hi = 0 /\ harness.input.hi = 0
          /\ harness.p.lo = harness.input.lo + 3
          /\ harness.p.lo = harness.entry_two.lo + 2 /\ harness.entry_two.hi = 0
          /\ harness.checks = <<[of |-> "add_one", holds |-> TRUE],
                                [of |-> "add_two", holds |-> FALSE]>>
C25_Witness ==
    /\ harness.state = "done"
    /\ harness.input = U32(99) /\ harness.p = U32(102)
    /\ harness.entry_two = U32(100)
    /\ Len(harness.checks) = 2 /\ ~harness.checks[2].holds

====
